---- MODULE Spec2Model ----
(***************************************************************************)
(* Two instances of the exception-based speed test (src/main.cpp).  Each   *)
(* instance is one control thread; its position in main() and in the       *)
(* functions main() calls is pc[p].  The operating-system objects the      *)
(* program shares (the named file mapping, the debug sessions) are part of *)
(* the state.  Every Win32 call that can fail fails nondeterministically.  *)
(***************************************************************************)
EXTENDS Integers, Sequences, FiniteSets, TLC

(* ------------------------------ bounds --------------------------------- *)

\* Messages per round; 10000 in src/main.cpp:21, kept small for checking.
kTestIterations == 2

\* Number of events the mock debuggee of SpecCounter may deliver.
MaxMockEvents == 4

\* Most events the mock debuggee's session holds queued at a time.
MaxMockQueue == 2

(* ----------------------------- constants ------------------------------- *)

\* static constexpr DWORD kExceptionCommsCode = 0x1337;
kExceptionCommsCode == 4919

\* The length of the payload "hello, world!" (lines 95 and 121).
kPayloadSize == 13

\* for (int i = 0; i < 10 && ...): the number of one-second polls.
kPollLimit == 10

\* The process ids of the two instances; 0 is never a process id.
Procs == {1, 2}
NoPid == 0
Partner(p) == IF p = 1 THEN 2 ELSE 1

\* An exception code that is not the sentinel (the attach breakpoint).
OtherExceptionCode == kExceptionCommsCode + 1

\* DEBUG_EVENT event = {};
ZeroEvent ==
    [kind |-> "NONE", code |-> 0, nparams |-> 0, pid |-> NoPid, tid |-> "none"]

\* The events the system queues for a debugger when it attaches: the
\* process-creation notification, then the break-in thread's breakpoint.
AttachEvents(q) ==
    << [kind |-> "CREATE_PROCESS_DEBUG_EVENT", code |-> 0, nparams |-> 0,
        pid |-> q, tid |-> "main"],
       [kind |-> "EXCEPTION_DEBUG_EVENT", code |-> OtherExceptionCode,
        nparams |-> 1, pid |-> q, tid |-> "aux"] >>

\* The event the system queues when a debugged process exits.
ExitEvent(q) ==
    [kind |-> "EXIT_PROCESS_DEBUG_EVENT", code |-> 0, nparams |-> 0,
     pid |-> q, tid |-> "main"]

VARIABLES
    arg,        \* argv[1] of each instance: "speed" or something else
    pc,         \* position of each instance's control thread
    exitStatus, \* "none" while running, else the value main() returned
    out,        \* the notices each instance has printed
    lastError,  \* the thread's last-error cell (GetLastError)
    handle,     \* the instance holds an open handle of the mapping
    view,       \* the instance holds a mapped view of the region
    shared,     \* SharedData: the region's two fields
    is_server, partner_pid, pollI,   \* locals of main()
    round,      \* 0 before the rounds, then 1 or 2
    sendI,      \* the sender loop's i
    count, event,                    \* locals of DebugPartnerProcess
    attached,   \* the pid this instance debugs, or NoPid
    dbgQueue,   \* debug events queued for this instance as debugger
    awaiting,   \* an event was returned to this debugger and not continued
    parked,     \* the control thread waits in RaiseException for its debugger
    \* ---- history, read only by the properties ----
    created,    \* this instance's CreateFileMappingA made the region
    opened,     \* this instance's CreateFileMappingA opened an existing one
    wlog,       \* writes to the region since it was created, in order
    failed,     \* the Win32 calls that failed in this instance
    sent,       \* sentinel exceptions raised, per instance
    lost,       \* of those, raised while no debugger was attached
    acks,       \* continue calls made for the event last returned
    calls,      \* the debug API calls made, per instance
    closes,     \* [unmap, close]: UnmapViewOfFile / CloseHandle calls made
    mockLeft,   \* events the mock debuggee may still deliver (SpecCounter)
    rate,       \* the class of the throughput a sender printed, per instance
    raised      \* the exception records an instance has raised

vars == << arg, pc, exitStatus, out, lastError, handle, view, shared,
           is_server, partner_pid, pollI, round, sendI, count, event,
           attached, dbgQueue, awaiting, parked, created, opened, wlog,
           failed, sent, lost, acks, calls, closes, mockLeft, rate, raised >>

(* ------------------------- operating system ---------------------------- *)

\* The named mapping object exists while any handle or view refers to it.
MappingExists == \E p \in Procs : handle[p] \/ view[p]

\* A process that has been launched and has not ended.
Alive(p) == pc[p] \notin {"exited", "killed"}

\* While an event is reported and not continued, the system keeps every
\* thread of the debuggee suspended.
Suspended(p) == \E d \in Procs : attached[d] = p /\ awaiting[d]

\* The control thread of p can take its next step.
Runs(p) == Alive(p) /\ ~Suspended(p)

DebuggerOf(p) == {d \in Procs : attached[d] = p}

(* ------------------------------ initial -------------------------------- *)

NoCalls == [attach |-> 0, wait |-> FALSE, cont |-> FALSE, detach |-> 0]
\* No throughput line was printed yet.
NoRate == "none"

NoCloses == [unmap |-> 0, close |-> 0]
ZeroShared == [server_pid |-> NoPid, client_pid |-> NoPid]

\* What does not depend on how the instances are started.
InitCommon ==
    /\ exitStatus = [p \in Procs |-> "none"]
    /\ out = [p \in Procs |-> {}]
    /\ lastError = [p \in Procs |-> "ERROR_SUCCESS"]
    /\ pollI = [p \in Procs |-> 0]
    /\ sendI = [p \in Procs |-> 0]
    /\ count = [p \in Procs |-> 0]
    /\ event = [p \in Procs |-> ZeroEvent]
    /\ attached = [p \in Procs |-> NoPid]
    /\ dbgQueue = [p \in Procs |-> << >>]
    /\ awaiting = [p \in Procs |-> FALSE]
    /\ parked = [p \in Procs |-> FALSE]
    /\ wlog = << >>
    /\ failed = [p \in Procs |-> {}]
    /\ sent = [p \in Procs |-> 0]
    /\ lost = [p \in Procs |-> 0]
    /\ acks = [p \in Procs |-> 0]
    /\ calls = [p \in Procs |-> NoCalls]
    /\ closes = [p \in Procs |-> NoCloses]
    /\ rate = [p \in Procs |-> NoRate]
    /\ raised = [p \in Procs |-> {}]

\* Two instances, each launched with or without the argument "speed"; no
\* mapping exists yet.
Init ==
    /\ InitCommon
    /\ arg \in [Procs -> {"speed", "other"}]
    /\ pc = [p \in Procs |-> "start"]
    /\ handle = [p \in Procs |-> FALSE]
    /\ view = [p \in Procs |-> FALSE]
    /\ shared = ZeroShared
    /\ is_server = [p \in Procs |-> FALSE]
    /\ partner_pid = [p \in Procs |-> NoPid]
    /\ round = [p \in Procs |-> 0]
    /\ created = [p \in Procs |-> FALSE]
    /\ opened = [p \in Procs |-> FALSE]
    /\ mockLeft = 0

(* --------------------------- process exit ------------------------------ *)

\* main() returns `status`: the process ends.  The system closes what the
\* process still holds; a process it was still debugging is terminated with
\* it (kill-on-exit is the default), and a debugger attached to it is sent
\* the exit notification.
ProcessExit(p, status) ==
    LET q == attached[p]
        victims == IF q \in Procs THEN {q} ELSE {}
        gone == {p} \cup victims
    IN  /\ pc' = [x \in Procs |->
                    IF x = p THEN "exited"
                    ELSE IF x \in victims /\ Alive(x) THEN "killed"
                    ELSE pc[x]]
        /\ exitStatus' = [exitStatus EXCEPT ![p] = status]
        /\ handle' = [x \in Procs |-> IF x \in gone THEN FALSE ELSE handle[x]]
        /\ view' = [x \in Procs |-> IF x \in gone THEN FALSE ELSE view[x]]
        /\ attached' = [x \in Procs |-> IF x \in gone THEN NoPid ELSE attached[x]]
        /\ awaiting' = [x \in Procs |-> IF x \in gone THEN FALSE ELSE awaiting[x]]
        /\ parked' = [x \in Procs |-> IF x \in gone THEN FALSE ELSE parked[x]]
        /\ dbgQueue' = [x \in Procs |->
                          IF x \in gone THEN << >>
                          ELSE IF attached[x] = p
                               THEN Append(dbgQueue[x], ExitEvent(p))
                               ELSE dbgQueue[x]]

\* The variables ProcessExit leaves alone besides `out`.
ExitUnchanged ==
    UNCHANGED << arg, lastError, shared, is_server, partner_pid, pollI, round,
                 sendI, count, event, created, opened, wlog, failed, sent,
                 lost, acks, calls, closes, mockLeft, rate, raised >>

Say(p, msg) == out' = [out EXCEPT ![p] = @ \cup {msg}]
Goto(p, label) == pc' = [pc EXCEPT ![p] = label]
Fail(p, call) == failed' = [failed EXCEPT ![p] = @ \cup {call}]

\* A failing Win32 call leaves its error code in the thread's last-error
\* cell, where GetLastError() reads it.
SetLastError(p, e) == lastError' = [lastError EXCEPT ![p] = e]

(* ------------------------ main(): negotiation -------------------------- *)

\* Mutant: the usage path reports failure.
UsageStatusFailure == "EXIT_FAILURE"

\* Line 134: the status the usage path returns.
UsageStatus == "EXIT_SUCCESS"

\* if (argc < 2 || strcmp(argv[1], "speed") != 0) { usage; return SUCCESS; }
MainUsage(p) ==
    /\ pc[p] = "start" /\ Runs(p)
    /\ arg[p] # "speed"
    /\ Say(p, "usage")
    /\ ProcessExit(p, UsageStatus)
    /\ ExitUnchanged

MainSpeed(p) ==
    /\ pc[p] = "start" /\ Runs(p)
    /\ arg[p] = "speed"
    /\ Goto(p, "create")
    /\ UNCHANGED << arg, exitStatus, out, lastError, handle, view, shared,
                    is_server, partner_pid, pollI, round, sendI, count, event,
                    attached, dbgQueue, awaiting, parked, created, opened,
                    wlog, failed, sent, lost, acks, calls, closes, mockLeft, rate, raised >>

\* HANDLE mapping = CreateFileMappingA(..., kSharedMappingName);
\* A fresh region is zero-filled and the last error is ERROR_SUCCESS; opening
\* an existing one sets the last error to ERROR_ALREADY_EXISTS.
CreateFileMapping(p) ==
    /\ pc[p] = "create" /\ Runs(p)
    /\ \E ok \in BOOLEAN :
         IF ok
         THEN /\ handle' = [handle EXCEPT ![p] = TRUE]
              /\ IF MappingExists
                 THEN /\ opened' = [opened EXCEPT ![p] = TRUE]
                      /\ lastError' = [lastError EXCEPT ![p] = "ERROR_ALREADY_EXISTS"]
                      /\ UNCHANGED << shared, wlog, created >>
                 ELSE /\ created' = [created EXCEPT ![p] = TRUE]
                      /\ lastError' = [lastError EXCEPT ![p] = "ERROR_SUCCESS"]
                      /\ shared' = ZeroShared
                      /\ wlog' = << >>
                      /\ UNCHANGED opened
              /\ Goto(p, "mapview")
              /\ UNCHANGED << failed, out >>
         ELSE /\ lastError' = [lastError EXCEPT ![p] = "ERROR_OTHER"]
              /\ Fail(p, "create")
              /\ Say(p, "Error creating file mapping")
              /\ Goto(p, "ret_create_failed")
              /\ UNCHANGED << handle, shared, wlog, created, opened >>
    /\ UNCHANGED << arg, exitStatus, view, is_server, partner_pid, pollI,
                    round, sendI, count, event, attached, dbgQueue, awaiting,
                    parked, sent, lost, acks, calls, closes, mockLeft, rate, raised >>

\* if (!mapping) { ...; return EXIT_FAILURE; }
ReturnCreateFailed(p) ==
    /\ pc[p] = "ret_create_failed" /\ Runs(p)
    /\ UNCHANGED out
    /\ ProcessExit(p, "EXIT_FAILURE")
    /\ ExitUnchanged

\* The last-error values a successful MapViewOfFile can leave behind: a
\* Win32 call that succeeds either leaves the cell as it found it or clears
\* it; its contract promises neither.
MapViewLastErrors(p) == {lastError[p], "ERROR_SUCCESS"}

\* auto shared = static_cast<SharedData*>(MapViewOfFile(mapping, ...));
MapViewOfFile(p) ==
    /\ pc[p] = "mapview" /\ Runs(p)
    /\ \/ /\ view' = [view EXCEPT ![p] = TRUE]
          /\ \E e \in MapViewLastErrors(p) :
                lastError' = [lastError EXCEPT ![p] = e]
          /\ Goto(p, "role")
          /\ UNCHANGED << failed, out >>
       \/ /\ lastError' = [lastError EXCEPT ![p] = "ERROR_OTHER"]
          /\ Fail(p, "mapview")
          /\ Say(p, "Error mapping view")
          /\ Goto(p, "mapfail_close")
          /\ UNCHANGED view
    /\ UNCHANGED << arg, exitStatus, handle, shared, is_server, partner_pid,
                    pollI, round, sendI, count, event, attached, dbgQueue,
                    awaiting, parked, created, opened, wlog, sent, lost,
                    acks, calls, closes, mockLeft, rate, raised >>

\* CloseHandle(mapping);
CloseHandle(p, next) ==
    /\ handle' = [handle EXCEPT ![p] = FALSE]
    /\ closes' = [closes EXCEPT ![p].close = @ + 1]
    /\ Goto(p, next)

\* UnmapViewOfFile(shared);
UnmapViewOfFile(p, next) ==
    /\ view' = [view EXCEPT ![p] = FALSE]
    /\ closes' = [closes EXCEPT ![p].unmap = @ + 1]
    /\ Goto(p, next)

\* Mutant: the failure branch returns without closing the handle.
MapFailCloseMissing(p) ==
    /\ pc[p] = "mapfail_close" /\ Runs(p)
    /\ Goto(p, "ret_map_failed")
    /\ UNCHANGED << handle, closes >>
    /\ UNCHANGED << arg, exitStatus, out, lastError, view, shared, is_server,
                    partner_pid, pollI, round, sendI, count, event, attached,
                    dbgQueue, awaiting, parked, created, opened, wlog, failed,
                    sent, lost, acks, calls, mockLeft, rate, raised >>

\* if (!shared) { ...; CloseHandle(mapping); return EXIT_FAILURE; }
MapFailClose(p) ==
    /\ pc[p] = "mapfail_close" /\ Runs(p)
    /\ CloseHandle(p, "ret_map_failed")
    /\ UNCHANGED << arg, exitStatus, out, lastError, view, shared, is_server,
                    partner_pid, pollI, round, sendI, count, event, attached,
                    dbgQueue, awaiting, parked, created, opened, wlog, failed,
                    sent, lost, acks, calls, mockLeft, rate, raised >>

ReturnMapFailed(p) ==
    /\ pc[p] = "ret_map_failed" /\ Runs(p)
    /\ UNCHANGED out
    /\ ProcessExit(p, "EXIT_FAILURE")
    /\ ExitUnchanged

\* bool is_server = (GetLastError() != ERROR_ALREADY_EXISTS);
IsServer(p) == lastError[p] # "ERROR_ALREADY_EXISTS"

\* Lines 156-161 and 176-177: decide the role, announce it, take the branch.
DecideRole(p) ==
    /\ pc[p] = "role" /\ Runs(p)
    /\ is_server' = [is_server EXCEPT ![p] = IsServer(p)]
    /\ partner_pid' = [partner_pid EXCEPT ![p] = NoPid]
    /\ IF IsServer(p)
       THEN Say(p, "Role: server") /\ Goto(p, "srv_write_spid")
       ELSE Say(p, "Role: client") /\ Goto(p, "cli_read_spid")
    /\ UNCHANGED << arg, exitStatus, lastError, handle, view, shared, pollI,
                    round, sendI, count, event, attached, dbgQueue, awaiting,
                    parked, created, opened, wlog, failed, sent, lost, acks,
                    calls, closes, mockLeft, rate, raised >>

\* A store to one field of the shared record, with its entry in the log.
Store(p, field, val) ==
    /\ shared' = [shared EXCEPT ![field] = val]
    /\ wlog' = Append(wlog, [field |-> field, by |-> p, val |-> val])

NegotiationUnchanged ==
    UNCHANGED << arg, exitStatus, out, lastError, handle, view, is_server,
                 round, sendI, count, event, attached, dbgQueue, awaiting,
                 parked, created, opened, failed, sent, lost, acks, calls,
                 closes, mockLeft, rate, raised >>

\* shared->server_pid = my_pid;
ServerWriteServerPid(p) ==
    /\ pc[p] = "srv_write_spid" /\ Runs(p)
    /\ Store(p, "server_pid", p)
    /\ Goto(p, "srv_zero_cpid")
    /\ UNCHANGED << partner_pid, pollI >>
    /\ NegotiationUnchanged

\* shared->client_pid = 0;  and the loop's  int i = 0
ServerZeroClientPid(p) ==
    /\ pc[p] = "srv_zero_cpid" /\ Runs(p)
    /\ Store(p, "client_pid", NoPid)
    /\ pollI' = [pollI EXCEPT ![p] = 0]
    /\ Goto(p, "srv_poll")
    /\ UNCHANGED partner_pid
    /\ NegotiationUnchanged

\* What the loop's test can take for shared->client_pid.  The field is a
\* plain DWORD that the other process writes meanwhile: the first test,
\* which follows the store of line 163 with no call between, may use the 0
\* just stored instead of loading the region; after a sleep_for call the
\* region is loaded.
PollSees(p) ==
    IF pollI[p] = 0 THEN {NoPid, shared.client_pid} ELSE {shared.client_pid}

\* Mutant: the poll loop's bound is off by one.
PollAgainOffByOne(p, seen) == pollI[p] <= kPollLimit /\ seen = NoPid

\* The poll loop's condition:  i < 10 && shared->client_pid == 0
PollAgain(p, seen) == pollI[p] < kPollLimit /\ seen = NoPid

\* for (int i = 0; i < 10 && shared->client_pid == 0; ++i): the test.  When
\* it holds the thread enters sleep_for(1s), otherwise it leaves the loop.
ServerPoll(p) ==
    /\ pc[p] = "srv_poll" /\ Runs(p)
    /\ \E seen \in PollSees(p) :
          IF PollAgain(p, seen)
          THEN Goto(p, "srv_sleep")
          ELSE Goto(p, "srv_read_cpid")
    /\ UNCHANGED << shared, wlog, partner_pid, pollI >>
    /\ NegotiationUnchanged

\* std::this_thread::sleep_for(std::chrono::seconds(1)) returns and the
\* loop's ++i runs; the next test follows.
ServerSleep(p) ==
    /\ pc[p] = "srv_sleep" /\ Runs(p)
    /\ pollI' = [pollI EXCEPT ![p] = @ + 1]
    /\ Goto(p, "srv_poll")
    /\ UNCHANGED << shared, wlog, partner_pid >>
    /\ NegotiationUnchanged

\* partner_pid = shared->client_pid;  if (!partner_pid) { ... }
ServerReadClientPid(p) ==
    /\ pc[p] = "srv_read_cpid" /\ Runs(p)
    /\ partner_pid' = [partner_pid EXCEPT ![p] = shared.client_pid]
    /\ IF shared.client_pid = NoPid
       THEN Say(p, "Client did not join") /\ Goto(p, "nojoin_unmap")
       ELSE Say(p, "Connected") /\ Goto(p, "round1")
    /\ UNCHANGED << arg, exitStatus, lastError, handle, view, shared, wlog,
                    is_server, pollI, round, sendI, count, event, attached,
                    dbgQueue, awaiting, parked, created, opened, failed,
                    sent, lost, acks, calls, closes, mockLeft, rate, raised >>

CleanupUnchanged ==
    UNCHANGED << arg, exitStatus, out, lastError, shared, is_server,
                 partner_pid, pollI, round, sendI, count, event, attached,
                 dbgQueue, awaiting, parked, created, opened, wlog, failed,
                 sent, lost, acks, calls, mockLeft, rate, raised >>

\* Lines 171-173: UnmapViewOfFile; CloseHandle; return EXIT_FAILURE.
NoJoinUnmap(p) ==
    /\ pc[p] = "nojoin_unmap" /\ Runs(p)
    /\ UnmapViewOfFile(p, "nojoin_close")
    /\ UNCHANGED handle
    /\ CleanupUnchanged

NoJoinClose(p) ==
    /\ pc[p] = "nojoin_close" /\ Runs(p)
    /\ CloseHandle(p, "ret_nojoin")
    /\ UNCHANGED view
    /\ CleanupUnchanged

ReturnNoJoin(p) ==
    /\ pc[p] = "ret_nojoin" /\ Runs(p)
    /\ UNCHANGED out
    /\ ProcessExit(p, "EXIT_FAILURE")
    /\ ExitUnchanged

\* Lines 178 and 179 are a load and a store of two plain fields with
\* nothing between them, and the build may issue them in either order.  At
\* "cli_read_spid" both are still to come, at "cli_write_cpid" the load is
\* done, at "cli_read_late" the store is done.  The "Connected to PID ..."
\* line of 182 follows the second of the two.
ClientAccessUnchanged ==
    UNCHANGED << arg, exitStatus, lastError, handle, view, is_server, pollI,
                 round, sendI, count, event, attached, dbgQueue, awaiting,
                 parked, created, opened, failed, sent, lost, acks, calls,
                 closes, mockLeft, rate, raised >>

\* partner_pid = shared->server_pid;
ClientReadServerPid(p) ==
    /\ pc[p] \in {"cli_read_spid", "cli_read_late"} /\ Runs(p)
    /\ partner_pid' = [partner_pid EXCEPT ![p] = shared.server_pid]
    /\ IF pc[p] = "cli_read_spid"
       THEN Goto(p, "cli_write_cpid") /\ UNCHANGED out
       ELSE Goto(p, "round1") /\ Say(p, "Connected")
    /\ UNCHANGED << shared, wlog >>
    /\ ClientAccessUnchanged

\* shared->client_pid = my_pid;
ClientWriteClientPid(p) ==
    /\ pc[p] \in {"cli_read_spid", "cli_write_cpid"} /\ Runs(p)
    /\ Store(p, "client_pid", p)
    /\ IF pc[p] = "cli_read_spid"
       THEN Goto(p, "cli_read_late") /\ UNCHANGED out
       ELSE Goto(p, "round1") /\ Say(p, "Connected")
    /\ UNCHANGED partner_pid
    /\ ClientAccessUnchanged

(* ------------------------------ rounds --------------------------------- *)

\* Where control goes when the round's function returns: after
\* RunSpeedTestRound to RunSwapRoleRound, after that to the cleanup.
AfterRound(p) == IF round[p] = 1 THEN "round2" ELSE "unmap"

RoundUnchanged ==
    UNCHANGED << arg, exitStatus, lastError, handle, view, shared, is_server,
                 partner_pid, pollI, count, event, attached, dbgQueue,
                 awaiting, parked, created, opened, wlog, failed, sent, lost,
                 acks, calls, closes, mockLeft, raised >>

\* The process sends in RunSpeedTestRound iff it is the server.
SendsInRound1(p) == is_server[p]

\* Mutant: the second round keeps the first round's assignment.
SendsInRound2NotSwapped(p) == is_server[p]

\* The process sends in RunSwapRoleRound iff it is not the server.
SendsInRound2(p) == ~is_server[p]

\* void RunSpeedTestRound(bool is_server, DWORD partner_pid): the branch, and
\* for the sender the warm-up sleep and the loop's  int i = 0.
RunSpeedTestRound(p) ==
    /\ pc[p] = "round1" /\ Runs(p)
    /\ round' = [round EXCEPT ![p] = 1]
    /\ sendI' = [sendI EXCEPT ![p] = 0]
    /\ IF SendsInRound1(p)
       THEN Say(p, "Round 1 (server sends)") /\ Goto(p, "send_loop")
       ELSE Say(p, "Round 1 (client debugs)") /\ Goto(p, "dbg_attach")
    /\ UNCHANGED rate
    /\ RoundUnchanged

\* void RunSwapRoleRound(bool is_server, DWORD partner_pid)
RunSwapRoleRound(p) ==
    /\ pc[p] = "round2" /\ Runs(p)
    /\ round' = [round EXCEPT ![p] = 2]
    /\ sendI' = [sendI EXCEPT ![p] = 0]
    /\ IF SendsInRound2(p)
       THEN Say(p, "Round 2 (client sends)") /\ Goto(p, "send_loop")
       ELSE Say(p, "Round 2 (server debugs)") /\ Goto(p, "dbg_attach")
    /\ UNCHANGED rate
    /\ RoundUnchanged

\* By how many ticks steady_clock can have advanced between the reading
\* before the loop and the reading after it, when the loop made n calls of
\* RaiseException.  The clock is monotonic, not strictly increasing: two
\* readings can be equal.
LoopTicks(n) == 0 .. n

\* std::chrono::duration<double> elapsed = end - start;
Elapsed(startT, endT) == endT - startT

\* double rate = kTestIterations / elapsed.count();  the quotient of a
\* non-negative count by a duration in IEEE arithmetic, kept as its class.
Throughput(n, elapsed) ==
    CASE elapsed = 0 /\ n = 0 -> "nan"
      [] elapsed = 0 /\ n > 0 -> "infinite"
      [] elapsed # 0 /\ n = 0 -> "zero"
      [] elapsed > 0 /\ n > 0 -> "positive finite"
      [] OTHER -> "negative finite"

\* i < kTestIterations
MoreToSend(p) == sendI[p] < kTestIterations

\* for (int i = 0; i < kTestIterations; ++i): the loop test; past the loop
\* the clock is read, the rate is printed and the round's function returns.
\* Clock readings are taken relative to the start reading.
SendLoop(p) ==
    /\ pc[p] = "send_loop" /\ Runs(p)
    /\ IF MoreToSend(p)
       THEN Goto(p, "raise") /\ UNCHANGED << out, rate >>
       ELSE /\ Goto(p, AfterRound(p))
            /\ Say(p, IF round[p] = 1 THEN "Server: sent" ELSE "Client: sent")
            /\ \E t \in LoopTicks(sendI[p]) :
                  rate' = [rate EXCEPT
                             ![p] = Throughput(kTestIterations, Elapsed(0, t))]
    /\ UNCHANGED << round, sendI >>
    /\ RoundUnchanged

\* message.data(): every call of SendMessageException passes the literal
\* "hello, world!", which lies in the calling process's own memory.
PayloadAddress(p) == <<"message.data()", p>>

\* Mutant: the length is passed without the terminator.
MessageParamsNoTerminator(p) == << PayloadAddress(p), kPayloadSize >>

\* ULONG_PTR params[2] = { message.data(), message.size() + 1 }: the address
\* of the payload in the sender's memory and its length with the terminator.
MessageParams(p) == << PayloadAddress(p), kPayloadSize + 1 >>

\* The arguments of RaiseException(kExceptionCommsCode, 0, 2, params).
ExceptionRecord(p) ==
    [code |-> kExceptionCommsCode, flags |-> 0, params |-> MessageParams(p)]

\* The debug event a debugger receives for the exception the sender raises.
MessageEvent(p) ==
    [kind |-> "EXCEPTION_DEBUG_EVENT", code |-> ExceptionRecord(p).code,
     nparams |-> Len(ExceptionRecord(p).params), pid |-> p, tid |-> "main"]

\* RaiseException(kExceptionCommsCode, 0, 2, params): with a debugger
\* attached the first-chance event is queued for it and the thread waits for
\* its answer; with none the __except filter takes the exception at once.
SendMessageException(p) ==
    /\ pc[p] = "raise" /\ Runs(p)
    /\ sent' = [sent EXCEPT ![p] = @ + 1]
    /\ raised' = [raised EXCEPT ![p] = @ \cup {ExceptionRecord(p)}]
    /\ IF DebuggerOf(p) # {}
       THEN /\ dbgQueue' = [d \in Procs |->
                              IF d \in DebuggerOf(p)
                              THEN Append(dbgQueue[d], MessageEvent(p))
                              ELSE dbgQueue[d]]
            /\ parked' = [parked EXCEPT ![p] = TRUE]
            /\ UNCHANGED lost
       ELSE /\ lost' = [lost EXCEPT ![p] = @ + 1]
            /\ UNCHANGED << dbgQueue, parked >>
    /\ Goto(p, "raised")
    /\ UNCHANGED << arg, exitStatus, out, lastError, handle, view, shared,
                    is_server, partner_pid, pollI, round, sendI, count, event,
                    attached, awaiting, created, opened, wlog, failed, acks,
                    calls, closes, mockLeft, rate >>

\* Line 41: the handler's empty block ends and the call returns to the loop.
AfterRaise(p) == "send_loop"

\* __except (EXCEPTION_EXECUTE_HANDLER) {}  and the loop's ++i: the thread
\* goes on once the debugger, if any, has answered or detached.
SendResume(p) ==
    /\ pc[p] = "raised" /\ Runs(p)
    /\ ~parked[p]
    /\ sendI' = [sendI EXCEPT ![p] = @ + 1]
    /\ Goto(p, AfterRaise(p))
    /\ UNCHANGED << round, out, rate >>
    /\ RoundUnchanged

(* ----------------------- DebugPartnerProcess --------------------------- *)

DebugUnchanged ==
    UNCHANGED << arg, exitStatus, handle, view, shared, is_server,
                 partner_pid, pollI, round, sendI, created, opened, wlog,
                 sent, lost, closes, mockLeft, rate, raised >>

\* DebugActiveProcess(pid) can succeed only for a live process other than
\* the caller that no debugger is attached to.
CanAttach(p, pid) ==
    /\ pid \in Procs /\ pid # p
    /\ Alive(pid)
    /\ DebuggerOf(pid) = {}

\* Mutant: the failure branch lacks its return and falls into the loop.
AttachFailedFallsThrough(p) == "dbg_loop"

\* Line 52: after a failed attach the function returns.
AttachFailedNext(p) == AfterRound(p)

\* Lines 48-56: if (!DebugActiveProcess(partner_pid)) { log; return; }
\* int count = 0;  DEBUG_EVENT event = {};
DebugAttach(p) ==
    /\ pc[p] = "dbg_attach" /\ Runs(p)
    /\ calls' = [calls EXCEPT ![p].attach = @ + 1]
    /\ \/ /\ CanAttach(p, partner_pid[p])
          /\ attached' = [attached EXCEPT ![p] = partner_pid[p]]
          /\ dbgQueue' = [dbgQueue EXCEPT ![p] = AttachEvents(partner_pid[p])]
          /\ count' = [count EXCEPT ![p] = 0]
          /\ event' = [event EXCEPT ![p] = ZeroEvent]
          /\ Say(p, "attaching")
          /\ Goto(p, "dbg_loop")
          /\ UNCHANGED << failed, lastError >>
       \/ /\ Fail(p, "attach")
          /\ SetLastError(p, "ERROR_OTHER")
          /\ out' = [out EXCEPT ![p] = @ \cup {"attaching", "attach failed"}]
          /\ Goto(p, AttachFailedNext(p))
          /\ UNCHANGED << attached, dbgQueue, count, event >>
    /\ UNCHANGED << awaiting, parked, acks >>
    /\ DebugUnchanged

\* Mutant: the loop ends one event short of the target.
LoopAgainShort(p) == count[p] < kTestIterations - 1

\* count < iterations, with iterations = kTestIterations at both call sites
LoopAgain(p) == count[p] < kTestIterations

\* while (count < iterations)
DebugLoop(p) ==
    /\ pc[p] = "dbg_loop" /\ Runs(p)
    /\ IF LoopAgain(p)
       THEN Goto(p, "dbg_wait")
       ELSE Goto(p, "dbg_detach")
    /\ UNCHANGED << out, count, event, attached, dbgQueue, awaiting, parked,
                    failed, lastError, acks, calls >>
    /\ DebugUnchanged

\* Line 71: break leaves the loop for the detach.
WaitFailedNext(p) == "dbg_detach"

\* if (WaitForDebugEvent(&event, INFINITE)) ... else { log; break; }
\* The call returns the oldest queued event, blocks while there is none, and
\* may fail.
WaitForDebugEvent(p) ==
    /\ pc[p] = "dbg_wait" /\ Runs(p)
    /\ calls' = [calls EXCEPT ![p].wait = TRUE]
    /\ \/ /\ dbgQueue[p] # << >>
          /\ event' = [event EXCEPT ![p] = Head(dbgQueue[p])]
          /\ dbgQueue' = [dbgQueue EXCEPT ![p] = Tail(@)]
          /\ awaiting' = [awaiting EXCEPT ![p] = TRUE]
          /\ acks' = [acks EXCEPT ![p] = 0]
          /\ Goto(p, "dbg_classify")
          /\ UNCHANGED << failed, lastError, out >>
       \/ /\ Fail(p, "wait")
          /\ SetLastError(p, "ERROR_OTHER")
          /\ Say(p, "wait failed")
          /\ Goto(p, WaitFailedNext(p))
          /\ UNCHANGED << event, dbgQueue, awaiting, acks >>
    /\ UNCHANGED << count, attached, parked >>
    /\ DebugUnchanged

\* Mutant: the exception record is read without testing the event's kind.
IsMessageAnyKind(e) ==
    /\ e.code = kExceptionCommsCode
    /\ e.nparams >= 2

\* event.dwDebugEventCode == EXCEPTION_DEBUG_EVENT &&
\* record.ExceptionCode == kExceptionCommsCode && record.NumberParameters >= 2
IsMessage(e) ==
    /\ e.kind = "EXCEPTION_DEBUG_EVENT"
    /\ e.code = kExceptionCommsCode
    /\ e.nparams >= 2

\* Mutant: a message event is counted twice.
IncrementedTwice(c) == c + 2

\* Line 64: ++count
Incremented(c) == c + 1

\* Lines 59-65: ++count for a message event.
DebugClassify(p) ==
    /\ pc[p] = "dbg_classify" /\ Runs(p)
    /\ count' = [count EXCEPT
                   ![p] = IF IsMessage(event[p]) THEN Incremented(@) ELSE @]
    /\ Goto(p, "dbg_continue")
    /\ UNCHANGED << out, event, attached, dbgQueue, awaiting, parked, failed,
                    lastError,
                    acks, calls >>
    /\ DebugUnchanged

\* ContinueDebugEvent(pid, tid, DBG_CONTINUE) by debugger p: it resumes the
\* debuggee when pid and tid name the event that was reported, and releases
\* the thread that waits in RaiseException when the event is its exception.
ContinueDebugEvent(p, pid, tid) ==
    /\ acks' = [acks EXCEPT ![p] = @ + 1]
    /\ calls' = [calls EXCEPT ![p].cont = TRUE]
    /\ IF awaiting[p] /\ pid = event[p].pid /\ tid = event[p].tid
       THEN /\ awaiting' = [awaiting EXCEPT ![p] = FALSE]
            /\ parked' = [q \in Procs |->
                            IF /\ q = pid /\ tid = "main"
                               /\ event[p].kind = "EXCEPTION_DEBUG_EVENT"
                            THEN FALSE ELSE parked[q]]
       ELSE UNCHANGED << awaiting, parked >>

\* Mutant: the loop is left as soon as the count reaches the target, without
\* continuing the event that brought it there.
DebugContinueBreakAtTarget(p) ==
    /\ pc[p] = "dbg_continue" /\ Runs(p)
    /\ IF count[p] >= kTestIterations
       THEN UNCHANGED << acks, calls, awaiting, parked >>
       ELSE ContinueDebugEvent(p, event[p].pid, event[p].tid)
    /\ Goto(p, "dbg_loop")
    /\ UNCHANGED << out, count, event, attached, dbgQueue, failed, lastError >>
    /\ DebugUnchanged

\* Line 66: ContinueDebugEvent(event.dwProcessId, event.dwThreadId, ...)
DebugContinue(p) ==
    /\ pc[p] = "dbg_continue" /\ Runs(p)
    /\ ContinueDebugEvent(p, event[p].pid, event[p].tid)
    /\ Goto(p, "dbg_loop")
    /\ UNCHANGED << out, count, event, attached, dbgQueue, failed, lastError >>
    /\ DebugUnchanged

\* Lines 75-82: DebugActiveProcessStop(partner_pid); a failure is only
\* logged.  A successful detach drops the queued events and lets the
\* debuggee run.
DebugDetach(p) ==
    /\ pc[p] = "dbg_detach" /\ Runs(p)
    /\ calls' = [calls EXCEPT ![p].detach = @ + 1]
    /\ \/ /\ attached[p] = partner_pid[p] /\ attached[p] # NoPid
          /\ attached' = [attached EXCEPT ![p] = NoPid]
          /\ dbgQueue' = [dbgQueue EXCEPT ![p] = << >>]
          /\ awaiting' = [awaiting EXCEPT ![p] = FALSE]
          /\ parked' = [parked EXCEPT ![partner_pid[p]] = FALSE]
          /\ Say(p, "detached")
          /\ UNCHANGED << failed, lastError >>
       \/ /\ Fail(p, "detach")
          /\ SetLastError(p, "ERROR_OTHER")
          /\ Say(p, "detach failed")
          /\ UNCHANGED << attached, dbgQueue, awaiting, parked >>
    /\ Goto(p, AfterRound(p))
    /\ UNCHANGED << count, event, acks >>
    /\ DebugUnchanged

(* --------------------------- main(): end ------------------------------- *)

\* Lines 187-191: UnmapViewOfFile; CloseHandle; return EXIT_SUCCESS.
FinalUnmap(p) ==
    /\ pc[p] = "unmap" /\ Runs(p)
    /\ UnmapViewOfFile(p, "close")
    /\ UNCHANGED handle
    /\ CleanupUnchanged

FinalClose(p) ==
    /\ pc[p] = "close" /\ Runs(p)
    /\ CloseHandle(p, "ret_ok")
    /\ UNCHANGED view
    /\ CleanupUnchanged

ReturnSuccess(p) ==
    /\ pc[p] = "ret_ok" /\ Runs(p)
    /\ Say(p, "Speed test complete")
    /\ ProcessExit(p, "EXIT_SUCCESS")
    /\ ExitUnchanged

(* --------------------------- specification ----------------------------- *)

Next ==
    \E p \in Procs :
        \/ MainUsage(p)
        \/ MainSpeed(p)
        \/ CreateFileMapping(p)
        \/ ReturnCreateFailed(p)
        \/ MapViewOfFile(p)
        \/ MapFailClose(p)
        \/ ReturnMapFailed(p)
        \/ DecideRole(p)
        \/ ServerWriteServerPid(p)
        \/ ServerZeroClientPid(p)
        \/ ServerPoll(p)
        \/ ServerSleep(p)
        \/ ServerReadClientPid(p)
        \/ NoJoinUnmap(p)
        \/ NoJoinClose(p)
        \/ ReturnNoJoin(p)
        \/ ClientReadServerPid(p)
        \/ ClientWriteClientPid(p)
        \/ RunSpeedTestRound(p)
        \/ RunSwapRoleRound(p)
        \/ SendLoop(p)
        \/ SendMessageException(p)
        \/ SendResume(p)
        \/ DebugAttach(p)
        \/ DebugLoop(p)
        \/ WaitForDebugEvent(p)
        \/ DebugClassify(p)
        \/ DebugContinue(p)
        \/ DebugDetach(p)
        \/ FinalUnmap(p)
        \/ FinalClose(p)
        \/ ReturnSuccess(p)

Spec == Init /\ [][Next]_vars

(* ---------------- the counter against a mock debuggee ------------------ *)

\* The debug events a mock debuggee delivers: exception and thread events,
\* with the sentinel code or another, and one to three parameters.  For a
\* thread event the code and parameter count are what the bytes of the
\* event's union read as through the exception record.
MockEvents ==
    [kind : {"EXCEPTION_DEBUG_EVENT", "CREATE_THREAD_DEBUG_EVENT"},
     code : {kExceptionCommsCode, OtherExceptionCode},
     nparams : 1 .. 3,
     pid : {2},
     tid : {"aux"}]

\* Instance 1 is about to call DebugPartnerProcess on the mock debuggee 2,
\* as the client in round 1 or as the server in round 2.
InitCounter ==
    /\ InitCommon
    /\ arg = [p \in Procs |-> "speed"]
    /\ pc = [p \in Procs |-> IF p = 1 THEN "dbg_attach" ELSE "mock"]
    /\ handle = [p \in Procs |-> p = 1]
    /\ view = [p \in Procs |-> p = 1]
    /\ shared = [server_pid |-> 2, client_pid |-> 1]
    /\ \E r \in 1 .. 2 :
          /\ round = [p \in Procs |-> IF p = 1 THEN r ELSE 0]
          /\ is_server = [p \in Procs |-> p = 1 /\ r = 2]
    /\ partner_pid = [p \in Procs |-> IF p = 1 THEN 2 ELSE NoPid]
    /\ created = [p \in Procs |-> FALSE]
    /\ opened = [p \in Procs |-> p = 1]
    /\ mockLeft = MaxMockEvents

\* The mock debuggee delivers one more event to the session.
MockDebugEvent ==
    /\ mockLeft > 0
    /\ attached[1] = 2
    /\ Len(dbgQueue[1]) < MaxMockQueue
    /\ \E e \in MockEvents :
          dbgQueue' = [dbgQueue EXCEPT ![1] = Append(@, e)]
    /\ mockLeft' = mockLeft - 1
    /\ UNCHANGED << arg, pc, exitStatus, out, lastError, handle, view, shared,
                    is_server, partner_pid, pollI, round, sendI, count, event,
                    attached, awaiting, parked, created, opened, wlog, failed,
                    sent, lost, acks, calls, closes, rate, raised >>

NextCounter ==
    \/ DebugAttach(1)
    \/ DebugLoop(1)
    \/ WaitForDebugEvent(1)
    \/ DebugClassify(1)
    \/ DebugContinue(1)
    \/ DebugDetach(1)
    \/ MockDebugEvent

SpecCounter == InitCounter /\ [][NextCounter]_vars

(* ============================== claims ================================= *)

SendPcs == {"send_loop", "raise", "raised"}
DebugPcs == {"dbg_attach", "dbg_loop", "dbg_wait", "dbg_classify",
             "dbg_continue", "dbg_detach"}
DebugCalls == {"attach", "wait", "detach"}

\* The instance passed negotiation and went on to the rounds.
PassedNegotiation(p) == "Connected" \in out[p]

\* C1 (as claimed): whenever both instances have passed negotiation, exactly
\* one is server and the other client, and each holds the other's process id
\* as partner_pid.
C1_RolesAndPartnersAgree ==
    (\A p \in Procs : PassedNegotiation(p)) =>
        \E s \in Procs :
            LET c == Partner(s)
            IN  /\ is_server[s] /\ ~is_server[c]
                /\ partner_pid[s] = c
                /\ partner_pid[c] = s

\* The sender has left its send loop: all kTestIterations raises are made.
SenderDone(s) == "Server: sent" \in out[s] \/ "Client: sent" \in out[s]

\* s and c negotiated as server and client of each other.
Paired(s, c) ==
    /\ PassedNegotiation(s) /\ PassedNegotiation(c)
    /\ is_server[s] # is_server[c]
    /\ partner_pid[s] = c /\ partner_pid[c] = s

\* C2 (as claimed): in a round whose sender has made its kTestIterations
\* raises, with a correctly negotiated partner none of whose debug calls
\* failed, every raise was paired with a counted event: none was raised
\* unobserved and the partner's count is kTestIterations.
C2_EveryRaiseCounted ==
    \A s \in Procs :
        LET c == Partner(s)
        IN  (/\ SenderDone(s)
             /\ Paired(s, c)
             /\ failed[c] \cap DebugCalls = {}
             /\ failed[s] \cap DebugCalls = {})
            => (lost[s] = 0 /\ count[c] = kTestIterations)

\* C3: in DebugPartnerProcess the count goes up, by exactly one, in the
\* classification of an exception event with the sentinel code and at least
\* two parameters, and in no other step and for no other event.
C3_CountsOnlyMessages ==
    [][\A p \in Procs :
          LET e == event[p]
              counted == /\ pc[p] = "dbg_classify" /\ pc'[p] # "dbg_classify"
                         /\ e.kind = "EXCEPTION_DEBUG_EVENT"
                         /\ e.code = 4919
                         /\ e.nparams >= 2
          IN  count'[p] = IF counted THEN count[p] + 1 ELSE count[p]]_vars

\* C3 witness: after one event was counted, a sentinel-code exception with a
\* single parameter has been classified and the count is still one.
C3_Witness ==
    /\ pc[1] = "dbg_continue"
    /\ count[1] = 1
    /\ event[1].kind = "EXCEPTION_DEBUG_EVENT"
    /\ event[1].code = kExceptionCommsCode
    /\ event[1].nparams = 1

\* C4: an event returned by a wait stays unacknowledged only while the
\* counter classifies it; by the next loop test, wait or detach, and after
\* the function, exactly one continue call was made for it and the debuggee
\* is not suspended.
C4_EveryEventContinued ==
    \A d \in Procs :
        /\ pc[d] \in {"dbg_classify", "dbg_continue"}
              => (awaiting[d] /\ acks[d] = 0)
        /\ (pc[d] \notin {"dbg_classify", "dbg_continue", "killed"})
              => /\ ~awaiting[d]
                 /\ event[d] # ZeroEvent => acks[d] = 1
                 /\ \A q \in Procs : attached[d] = q => ~Suspended(q)

\* C4 witness: the event that brought the count to the target was continued
\* and the counter is about to detach.
C4_Witness ==
    \E d \in Procs :
        /\ pc[d] = "dbg_detach"
        /\ count[d] = kTestIterations
        /\ IsMessage(event[d])
        /\ acks[d] = 1
        /\ "wait" \notin failed[d]

\* C5, in every state: a process in the rounds sends in round 1 iff it is
\* the server and counts iff it is the client, and the other way round in
\* round 2; no round is entered without negotiation; round 2 is entered only
\* after the round-1 function returned; a process that has finished both
\* rounds has sent in one and attached in the other; every attach is to the
\* negotiated partner_pid.
C5_RolesInState ==
    \A p \in Procs :
        /\ round[p] = 0 =>
              (pc[p] \notin SendPcs \cup DebugPcs /\ sent[p] = 0
               /\ calls[p] = NoCalls)
        /\ round[p] = 1 =>
              /\ PassedNegotiation(p)
              /\ pc[p] \in SendPcs => is_server[p]
              /\ pc[p] \in DebugPcs => ~is_server[p]
              /\ is_server[p] => calls[p] = NoCalls
              /\ ~is_server[p] => sent[p] = 0
        /\ round[p] = 2 =>
              /\ pc[p] \in SendPcs => ~is_server[p]
              /\ pc[p] \in DebugPcs => is_server[p]
              /\ is_server[p] =>
                    (sent[p] = kTestIterations /\ "Server: sent" \in out[p])
              /\ ~is_server[p] =>
                    /\ calls[p].attach = 1
                    /\ "attach" \in failed[p] \/ calls[p].detach = 1
        /\ pc[p] \in {"unmap", "close", "ret_ok"} =>
              (round[p] = 2 /\ sent[p] = kTestIterations /\ calls[p].attach = 1)
        /\ attached[p] # NoPid => attached[p] = partner_pid[p]

\* C5, in every step: once a process is past negotiation its role and its
\* partner_pid stay what they were.
C5_RolesInStep ==
    \A p \in Procs :
        (PassedNegotiation(p) /\ Alive(p)) =>
            (is_server'[p] = is_server[p] /\ partner_pid'[p] = partner_pid[p])

\* C5: round 1 has the server send and the client count, round 2 inverts
\* the assignment, both rounds use the partner_pid of the negotiation, and
\* round 2 starts only after round 1's function has returned.
C5_RoundsSwapRoles == [](C5_RolesInState) /\ [][C5_RolesInStep]_vars

\* C5 witness: the client, having counted all of round 1, raises in round 2.
C5_Witness ==
    \E p \in Procs :
        /\ round[p] = 2 /\ pc[p] = "raised"
        /\ ~is_server[p]
        /\ count[p] = kTestIterations
        /\ calls[p].detach = 1

\* C6: the poll loop makes at most kPollLimit polls; a server that then
\* reads client_pid as zero reports that the client did not join; and a
\* process that reported it leaves by the failure path having done no
\* round: no raise, no debug call.
C6_NoClientNoRounds ==
    \A p \in Procs :
        /\ pollI[p] <= kPollLimit
        /\ (/\ is_server[p]
            /\ pc[p] \notin {"srv_write_spid", "srv_zero_cpid", "srv_poll",
                              "srv_sleep",
                             "srv_read_cpid", "killed"}
            /\ partner_pid[p] = NoPid)
           => "Client did not join" \in out[p]
        /\ "Client did not join" \in out[p]
           => /\ pc[p] \in {"nojoin_unmap", "nojoin_close", "ret_nojoin",
                            "exited", "killed"}
              /\ pc[p] = "exited" => exitStatus[p] = "EXIT_FAILURE"
              /\ round[p] = 0 /\ sent[p] = 0
              /\ calls[p] = NoCalls /\ attached[p] = NoPid

\* C6 witness: a server polled the whole window, saw no client and exited.
C6_Witness ==
    \E p \in Procs :
        /\ pc[p] = "exited" /\ is_server[p]
        /\ pollI[p] = kPollLimit
        /\ "Client did not join" \in out[p]
        /\ exitStatus[p] = "EXIT_FAILURE"

\* C7: after a failed attach the function has logged the failure and
\* returned: no wait, no counted event, no continue and no detach call was
\* made, nothing is attached, and the process is outside the function.
C7_AttachFailureReturns ==
    \A p \in Procs :
        "attach" \in failed[p] =>
            /\ "attach failed" \in out[p]
            /\ ~calls[p].wait /\ ~calls[p].cont /\ calls[p].detach = 0
            /\ count[p] = 0
            /\ attached[p] = NoPid
            /\ pc[p] \notin DebugPcs
            /\ failed[p] \cap {"wait", "detach"} = {}

\* C7 witness: a process whose attach failed ran to its normal end.
C7_Witness ==
    \E p \in Procs :
        /\ "attach" \in failed[p]
        /\ pc[p] = "exited"
        /\ exitStatus[p] = "EXIT_SUCCESS"

\* C8 (as claimed): a process that announced the server role created the
\* region and one that announced the client role opened an existing one.
C8_RoleFollowsCreation ==
    \A p \in Procs :
        /\ created[p] /\ pc[p] \notin {"mapview", "role", "mapfail_close",
                                       "ret_map_failed", "exited", "killed"}
              => is_server[p]
        /\ "Role: server" \in out[p] => created[p]
        /\ "Role: client" \in out[p] => opened[p]

\* The positions in the log of the writes to one field.
WritesTo(field) == {i \in 1 .. Len(wlog) : wlog[i].field = field}

\* C9 (as claimed): server_pid is written once at most and only by the
\* process that created the region; client_pid is given a process id once
\* at most, only by a process that opened the region, and no store follows
\* the one that put the client's id there.
C9_SingleWriterPerField ==
    /\ Cardinality(WritesTo("server_pid")) <= 1
    /\ \A i \in WritesTo("server_pid") : created[wlog[i].by]
    /\ \A i \in WritesTo("client_pid") :
          wlog[i].val # NoPid =>
              /\ opened[wlog[i].by]
              /\ \A j \in WritesTo("client_pid") : j <= i

\* C10: a process that returned from main() returned failure exactly when
\* the mapping creation failed, the view mapping failed, or it was server
\* and read no client id; a run without the argument `speed` returned
\* success having printed the usage line and touched no mapping.
C10_ExitStatus ==
    \A p \in Procs :
        /\ pc[p] # "exited" => exitStatus[p] = "none"
        /\ pc[p] = "exited" =>
              /\ exitStatus[p] \in {"EXIT_SUCCESS", "EXIT_FAILURE"}
              /\ exitStatus[p] = "EXIT_FAILURE" <=>
                    \/ "create" \in failed[p]
                    \/ "mapview" \in failed[p]
                    \/ is_server[p] /\ partner_pid[p] = NoPid
              /\ arg[p] # "speed" =>
                    /\ exitStatus[p] = "EXIT_SUCCESS"
                    /\ "usage" \in out[p]
                    /\ ~created[p] /\ ~opened[p]
                    /\ closes[p] = NoCloses
                    /\ \A i \in 1 .. Len(wlog) : wlog[i].by # p

\* C10 witness: a process whose wait and detach calls failed returned
\* success.
C10_Witness ==
    \E p \in Procs :
        /\ pc[p] = "exited"
        /\ {"wait", "detach"} \subseteq failed[p]
        /\ exitStatus[p] = "EXIT_SUCCESS"

(* ------------------------------ C11 ----------------------------------- *)

\* The throughput line of a sender ("Server: sent" in round 1, "Client:
\* sent" in round 2) was printed by instance p.
RatePrinted(p) == "Server: sent" \in out[p] \/ "Client: sent" \in out[p]

\* C11 (as claimed): a sender prints its throughput line only after it has
\* made exactly kTestIterations raises in its round, never fewer and never
\* more, and the throughput it prints is a positive finite number.
C11_RateAfterAllRaises ==
    \A p \in Procs :
        /\ sent[p] <= kTestIterations
        /\ RatePrinted(p) <=> rate[p] # NoRate
        /\ RatePrinted(p) =>
              /\ sent[p] = kTestIterations
              /\ rate[p] = "positive finite"
        /\ (pc[p] \in SendPcs /\ sent[p] < kTestIterations) => ~RatePrinted(p)

(* ------------------------------ C12 ----------------------------------- *)

\* Instance p attached with success in its counter round ("attaching" is
\* logged on both branches, "attach failed" on the failing one only).
AttachSucceeded(p) ==
    /\ calls[p].attach = 1
    /\ "attach" \notin failed[p]

\* Instance p has returned from DebugPartnerProcess: by the return of line
\* 52, which follows the "attach failed" line, or by the function's end at
\* line 83, which follows the "detach failed" or the "detached" line.
CounterReturned(p) ==
    {"attach failed", "detach failed", "detached"} \cap out[p] # {}

\* C12: after a successful attach the counting loop is left only when count
\* has reached the target or a wait has failed; on either exit the detach
\* is called exactly once; a failed detach is only reported, the function
\* returns and the process goes on with what follows the round.
C12_LoopExitState ==
    \A p \in Procs :
        /\ pc[p] = "dbg_detach" =>
              /\ AttachSucceeded(p)
              /\ count[p] = kTestIterations \/ "wait" \in failed[p]
              /\ calls[p].detach = 0
        /\ (AttachSucceeded(p) /\ pc[p] \in DebugPcs \ {"dbg_detach"}) =>
              calls[p].detach = 0
        /\ (pc[p] \notin DebugPcs \cup {"killed"} /\ calls[p].attach = 1) =>
              CounterReturned(p)
        /\ CounterReturned(p) => pc[p] \notin DebugPcs
        /\ (AttachSucceeded(p) /\ CounterReturned(p)) =>
              /\ calls[p].detach = 1
              /\ count[p] = kTestIterations \/ "wait" \in failed[p]
              /\ ("detached" \in out[p]) # ("detach failed" \in out[p])
              /\ "detach" \in failed[p] <=> "detach failed" \in out[p]
        /\ ("attach" \in failed[p]) => calls[p].detach = 0

\* The detach step itself: whether the call succeeds or fails, control
\* passes to what follows the round (round 2 after round 1, the cleanup
\* after round 2) and the process neither exits nor repeats the call.
C12_DetachStep ==
    \A p \in Procs :
        (pc[p] = "dbg_detach" /\ pc'[p] # "dbg_detach" /\ pc'[p] # "killed") =>
            /\ pc'[p] = AfterRound(p)
            /\ exitStatus'[p] = exitStatus[p]
            /\ calls'[p].detach = 1

C12_DetachOnceOnEveryExit == [](C12_LoopExitState) /\ [][C12_DetachStep]_vars

\* A counter whose wait failed and whose detach failed as well has gone on
\* and finished with success, and another has left the loop at the target.
C12_Witness ==
    /\ \E p \in Procs :
          /\ AttachSucceeded(p) /\ pc[p] = "exited"
          /\ {"wait", "detach"} \subseteq failed[p]
          /\ calls[p].detach = 1
          /\ count[p] < kTestIterations
          /\ "Speed test complete" \in out[p]
    /\ \E q \in Procs :
          /\ AttachSucceeded(q) /\ CounterReturned(q)
          /\ count[q] = kTestIterations
          /\ failed[q] = {}
          /\ "detached" \in out[q]

(* ------------------------------ C14 ----------------------------------- *)

\* C14: the counter's count is zero when its round starts, it changes only
\* by steps of one, and it stays between zero and the target in every
\* reachable state; nothing of one round's count is carried into the other
\* round, each round's counter starting from zero on its own variable.
C14_CountInRange ==
    \A p \in Procs :
        /\ count[p] \in 0 .. kTestIterations
        /\ (pc[p] \notin DebugPcs /\ calls[p].attach = 0) => count[p] = 0
        /\ (pc[p] \in {"dbg_loop", "dbg_wait"} /\ ~calls[p].cont) =>
              count[p] = 0

\* A step changes at most the count of the process that classifies an
\* event, by one, and only for a message event.
C14_CountStep ==
    \A p \in Procs :
        /\ count'[p] # count[p] =>
              /\ pc[p] = "dbg_classify"
              /\ count'[p] = count[p] + 1
              /\ IsMessage(event[p])
              /\ count'[Partner(p)] = count[Partner(p)]
        /\ (pc[p] = "dbg_attach" /\ pc'[p] = "dbg_loop") => count'[p] = 0

C14_CountStartsAtZeroStepsByOne ==
    [](C14_CountInRange) /\ [][C14_CountStep]_vars

\* Round 1 ended with the client's count at the target, and the server has
\* begun round 2 as counter with its own count at zero.
C14_Witness ==
    \E s, c \in Procs :
        /\ Paired(s, c)
        /\ count[c] = kTestIterations /\ round[c] = 2
        /\ round[s] = 2 /\ pc[s] = "dbg_wait" /\ count[s] = 0
        /\ attached[s] = c

(* ------------- the rounds after a successful negotiation --------------- *)

\* Both instances have negotiated with success and are about to call
\* RunSpeedTestRound: s created the mapping, is the server and has read c's
\* pid; c opened it, is the client and has read s's pid.
InitRounds ==
    \E s \in Procs :
        LET c == Partner(s)
        IN  /\ arg = [p \in Procs |-> "speed"]
            /\ pc = [p \in Procs |-> "round1"]
            /\ exitStatus = [p \in Procs |-> "none"]
            /\ out = [p \in Procs |->
                        IF p = s THEN {"Role: server", "Connected"}
                                 ELSE {"Role: client", "Connected"}]
            /\ lastError = [p \in Procs |->
                              IF p = s THEN "ERROR_SUCCESS"
                                       ELSE "ERROR_ALREADY_EXISTS"]
            /\ handle = [p \in Procs |-> TRUE]
            /\ view = [p \in Procs |-> TRUE]
            /\ shared = [server_pid |-> s, client_pid |-> c]
            /\ is_server = [p \in Procs |-> p = s]
            /\ partner_pid = [p \in Procs |-> Partner(p)]
            /\ pollI = [p \in Procs |-> 0]
            /\ round = [p \in Procs |-> 0]
            /\ sendI = [p \in Procs |-> 0]
            /\ count = [p \in Procs |-> 0]
            /\ event = [p \in Procs |-> ZeroEvent]
            /\ attached = [p \in Procs |-> NoPid]
            /\ dbgQueue = [p \in Procs |-> << >>]
            /\ awaiting = [p \in Procs |-> FALSE]
            /\ parked = [p \in Procs |-> FALSE]
            /\ created = [p \in Procs |-> p = s]
            /\ opened = [p \in Procs |-> p = c]
            /\ wlog = << [field |-> "server_pid", val |-> s, by |-> s],
                         [field |-> "client_pid", val |-> NoPid, by |-> s],
                         [field |-> "client_pid", val |-> c, by |-> c] >>
            /\ failed = [p \in Procs |-> {}]
            /\ sent = [p \in Procs |-> 0]
            /\ lost = [p \in Procs |-> 0]
            /\ acks = [p \in Procs |-> 0]
            /\ calls = [p \in Procs |-> NoCalls]
            /\ closes = [p \in Procs |-> NoCloses]
            /\ mockLeft = 0
            /\ rate = [p \in Procs |-> NoRate]
            /\ raised = [p \in Procs |-> {}]

\* Lines 184-191 of main and what they call.
NextRounds ==
    \E p \in Procs :
        \/ RunSpeedTestRound(p)
        \/ RunSwapRoleRound(p)
        \/ SendLoop(p)
        \/ SendMessageException(p)
        \/ SendResume(p)
        \/ DebugAttach(p)
        \/ DebugLoop(p)
        \/ WaitForDebugEvent(p)
        \/ DebugClassify(p)
        \/ DebugContinue(p)
        \/ DebugDetach(p)
        \/ FinalUnmap(p)
        \/ FinalClose(p)
        \/ ReturnSuccess(p)

\* A debug call of p that cannot succeed in the current state and so
\* returns its failure at once: an attach to a process that is gone, is not
\* known or has a debugger, and a detach from a process p is not attached to.
MustFail(p) ==
    \/ pc[p] = "dbg_attach" /\ ~CanAttach(p, partner_pid[p])
    \/ pc[p] = "dbg_detach"
          /\ ~(attached[p] = partner_pid[p] /\ attached[p] # NoPid)

\* A step of process p's own thread in which no Win32 call fails that
\* could have succeeded.
FairStep(p) ==
    /\ NextRounds
    /\ pc'[p] # pc[p] /\ pc'[p] # "killed"
    /\ failed'[p] = failed[p] \/ MustFail(p)

\* The scheduler runs every process that can run: a process whose next
\* statement is enabled eventually executes it.  A Win32 call is not
\* obliged to fail, and WaitForDebugEvent(INFINITE) blocks while no event is
\* queued.
SpecRounds ==
    InitRounds /\ [][NextRounds]_vars /\ \A p \in Procs : WF_vars(FairStep(p))

(* ------------------------------ C13 ----------------------------------- *)

\* Where a process that has returned from its counter round can be: the
\* server, which counts in round 2, in the cleanup or finished; the client,
\* which counts in round 1, also in its sender round.
AfterCounterPcs(p) ==
    IF is_server[p]
    THEN {"unmap", "close", "ret_ok", "exited"}
    ELSE {"round2"} \cup SendPcs \cup {"unmap", "close", "ret_ok", "exited"}

\* C13 (as claimed): a failed wait ends the counting loop at once with the
\* partial count (below the target) and the wait is not tried again; a
\* process whose counter round ended by an attach failure or a wait failure
\* still goes on to its next round and to normal completion.
C13_FailureState ==
    \A p \in Procs :
        /\ "wait" \in failed[p] =>
              /\ count[p] < kTestIterations
              /\ pc[p] \notin DebugPcs \ {"dbg_detach"}
              /\ "wait failed" \in out[p]
        /\ ({"attach", "wait"} \cap failed[p] # {}) =>
              /\ pc[p] \in {"dbg_detach"} \cup AfterCounterPcs(p)
              /\ pc[p] = "exited" =>
                    /\ exitStatus[p] = "EXIT_SUCCESS"
                    /\ "Speed test complete" \in out[p]
                    /\ round[p] = 2

\* The failing wait is the loop's last step: count and the event are left
\* as they were and the next call is the detach.
C13_WaitFailureStep ==
    \A p \in Procs :
        ("wait" \notin failed[p] /\ "wait" \in failed'[p]) =>
            /\ pc[p] = "dbg_wait" /\ pc'[p] = "dbg_detach"
            /\ count'[p] = count[p] /\ count[p] < kTestIterations
            /\ dbgQueue'[p] = dbgQueue[p]

\* The process whose counter round failed reaches its normal completion.
C13_GoesOn ==
    \A p \in Procs :
        ({"attach", "wait"} \cap failed[p] # {}) ~>
            (pc[p] = "exited" /\ exitStatus[p] = "EXIT_SUCCESS")

C13_WaitFailureEndsLoop ==
    /\ [](C13_FailureState)
    /\ [][C13_WaitFailureStep]_vars
    /\ C13_GoesOn

(* ------------------------------ C18 ----------------------------------- *)

\* Both processes have returned EXIT_SUCCESS from main after both rounds.
BothComplete ==
    \A p \in Procs :
        /\ pc[p] = "exited" /\ exitStatus[p] = "EXIT_SUCCESS"
        /\ round[p] = 2

\* An attach, wait or detach call has failed in some process.
DebugCallFailed == \E p \in Procs : failed[p] \cap DebugCalls # {}

\* C18 (as claimed): after a successful negotiation, in a run in which no
\* attach, wait or detach call fails, both processes eventually finish both
\* rounds and return success, under fair scheduling and whatever the order
\* of the sender's first raise and the counter's attach.
C18_RoundsTerminate ==
    (\E s, c \in Procs : Paired(s, c)) ~> (BothComplete \/ DebugCallFailed)

(* ------------------------------ C15 ----------------------------------- *)

\* C15 (as claimed): the sentinel exception is suppressed inside the sender
\* whether or not a debugger is attached: execution continues at the
\* statement after the raise, the sender never terminates because of it,
\* and a sender round therefore makes all its kTestIterations raises.
C15_SenderState ==
    \A p \in Procs :
        /\ pc[p] \in SendPcs => exitStatus[p] = "none"
        /\ (pc[p] = "raised" /\ parked[p]) => DebuggerOf(p) # {}
        /\ pc[p] \in {"raise", "raised"} => sent[p] - sendI[p] \in {0, 1}
        /\ RatePrinted(p) => sent[p] = kTestIterations

\* Execution continues at the statement after the raise: a sender that has
\* called RaiseException, with or without a debugger attached, comes back
\* to its loop.  That every sender round makes all its raises follows from
\* it.
C15_RaiseReturns ==
    \A p \in Procs : (pc[p] = "raised") ~> (pc[p] = "send_loop")

C15_RaiseSuppressed == [](C15_SenderState) /\ C15_RaiseReturns

(* ------------------------------ C16 ----------------------------------- *)

\* C16: every exception the sender raises carries the sentinel code 0x1337
\* and exactly two parameters, the payload's address and the payload's
\* length plus one for the terminator; so every event the sender raises
\* satisfies the counter's classification rule.
C16_RaisedRecordsAreMessages ==
    \A p \in Procs :
        /\ \A r \in raised[p] :
              /\ r.code = 4919
              /\ Len(r.params) = 2
              /\ r.params[1] = PayloadAddress(p)
              /\ r.params[2] = kPayloadSize + 1
        /\ sent[p] > 0 <=> raised[p] # {}
        /\ \A d \in Procs :
              \A i \in 1 .. Len(dbgQueue[d]) :
                  LET e == dbgQueue[d][i]
                  IN  (e.pid = p /\ e.tid = "main"
                         /\ e.kind = "EXCEPTION_DEBUG_EVENT") =>
                          /\ e.code = 4919 /\ e.nparams = 2
                          /\ IsMessage(e)
        /\ (event[p].tid = "main" /\ event[p].kind = "EXCEPTION_DEBUG_EVENT") =>
              /\ event[p].code = 4919 /\ event[p].nparams = 2
              /\ IsMessage(event[p])

\* A raised exception is queued for the attached debugger as an event that
\* the classification rule accepts, after another was raised unobserved.
C16_Witness ==
    \E p \in Procs :
        /\ raised[p] # {} /\ lost[p] > 0
        /\ pc[p] = "raised" /\ parked[p]
        /\ \E d \in Procs :
              /\ dbgQueue[d] # << >>
              /\ dbgQueue[d][Len(dbgQueue[d])] = MessageEvent(p)
              /\ IsMessage(dbgQueue[d][Len(dbgQueue[d])])

(* ------------------------------ C17 ----------------------------------- *)

\* The statements of main between the successful MapViewOfFile and the
\* UnmapViewOfFile of the path taken.
MappedPcs ==
    {"role", "srv_write_spid", "srv_zero_cpid", "srv_poll", "srv_sleep",
     "srv_read_cpid",
     "nojoin_unmap", "cli_read_spid", "cli_write_cpid", "cli_read_late",
     "round1", "round2",
     "unmap"} \cup SendPcs \cup DebugPcs

\* C17: once the view is mapped it stays mapped until the process's exit
\* path, and on every exit path after the mapping (no client joined, normal
\* completion) the view is unmapped and the handle closed exactly once; when
\* the mapping of the view itself fails the handle is still closed before
\* the exit.
C17_CleanupOnEveryExit ==
    \A p \in Procs :
        /\ pc[p] \in MappedPcs =>
              /\ view[p] /\ handle[p]
              /\ closes[p] = NoCloses
        /\ pc[p] \in {"nojoin_close", "close"} =>
              /\ ~view[p] /\ handle[p]
              /\ closes[p] = [unmap |-> 1, close |-> 0]
        /\ pc[p] \in {"ret_nojoin", "ret_ok"} =>
              /\ ~view[p] /\ ~handle[p]
              /\ closes[p] = [unmap |-> 1, close |-> 1]
        /\ pc[p] = "mapfail_close" =>
              /\ ~view[p] /\ handle[p] /\ closes[p] = NoCloses
        /\ pc[p] = "ret_map_failed" =>
              /\ ~view[p] /\ ~handle[p]
              /\ closes[p] = [unmap |-> 0, close |-> 1]
        /\ pc[p] = "exited" =>
              /\ ~view[p] /\ ~handle[p]
              /\ closes[p].unmap <= 1 /\ closes[p].close <= 1
              /\ ("mapview" \in failed[p]) =>
                    closes[p] = [unmap |-> 0, close |-> 1]
              /\ ("Client did not join" \in out[p]
                    \/ "Speed test complete" \in out[p]) =>
                    closes[p] = [unmap |-> 1, close |-> 1]
              /\ ("create" \in failed[p] \/ arg[p] # "speed") =>
                    closes[p] = NoCloses

\* One process has left because its view could not be mapped, after closing
\* its handle, and the other, the server, has left because no client joined,
\* after unmapping its view and closing its handle.
C17_Witness ==
    \E p \in Procs :
        /\ pc[p] = "exited"
        /\ "mapview" \in failed[p]
        /\ closes[p] = [unmap |-> 0, close |-> 1]
        /\ \E q \in Procs :
              /\ pc[q] = "exited"
              /\ "Client did not join" \in out[q]
              /\ closes[q] = [unmap |-> 1, close |-> 1]

(* ------------------------------ C19 ----------------------------------- *)

\* C19 (as claimed): at every moment at most one of the two processes is
\* attached as debugger of the other; in particular the server, counter of
\* round 2, never attaches to the client while the client is still attached
\* to the server from round 1.  Stated for runs in which no Win32 call has
\* failed and no raise was made before the counter's attach.
C19_OneDebuggerAtATime ==
    (\A p \in Procs : failed[p] = {} /\ lost[p] = 0) =>
        ~(\E s, c \in Procs :
             /\ Paired(s, c)
             /\ attached[s] = c /\ attached[c] = s)

====
